---- MODULE Spec2Model ----
(***************************************************************************)
(* Model of ds_common_logger_py_lib: the process-wide LoggerConfig         *)
(* (config.py), the Logger factory (core.py) and the logging registry of   *)
(* the host runtime they act on (root logger, named loggers, handlers).    *)
(*                                                                         *)
(* Every public operation is one atomic action.  An operation is written   *)
(* as an operator from a state record to a state record, so that an        *)
(* operation that calls another one (set_prefix -> configure,              *)
(* set_default_handler -> remove_handler) is the composition of both.      *)
(***************************************************************************)
EXTENDS Integers, Sequences, FiniteSets, TLC

(*************************** program constants *****************************)
\* logging.NOTSET / DEBUG / INFO / WARNING of the host logging module
NOTSET == 0
DEBUG == 10
INFO == 20
WARNING == 30

\* config.py:18-20
DEFAULT_FORMAT == "[%(asctime)s][%(name)s][%(levelname)s][%(filename)s:%(lineno)d]: %(message)s"
DEFAULT_FORMAT_WITH_PREFIX == "[%(asctime)s][{prefix}][%(name)s][%(levelname)s][%(filename)s:%(lineno)d]: %(message)s"
DEFAULT_DATE_FORMAT == "%Y-%m-%dT%H:%M:%S"

(******************************* bounds ************************************)
\* number of sinks the library itself may have alive at once
\* (logging.StreamHandler(sys.stdout) objects it constructs)
MaxSynth == 3
\* longest handler list kept in LoggerConfig._handlers
MaxHandlers == 2

\* the absent default handler (None)
NoSink == 0
\* the absent level argument (None)
NoLevel == -1

\* sinks supplied by the application (two distinct handler objects)
UserSinks == {1, 2}
\* identities of the sinks the library constructs
SynthSinks == {h + 2 : h \in 1..MaxSynth}
Sinks == UserSinks \cup SynthSinks

\* logger names handed to get_logger
Names == {"a", "b"}
\* classes that use LoggingMixin: UserService is a subclass of BaseService;
\* "UserService/2" is a second class that is also called UserService, defined
\* in another scope of the same module (as the TestService classes of
\* test_mixin.py:37,47,93,105,118)
Classes == {"BaseService", "UserService", "UserService/2"}
\* cls.__name__
class_name(c) == IF c = "UserService/2" THEN "UserService" ELSE c
\* cls.__module__ of these classes
ModuleName == "app"
\* the logger name of a class (mixin.py:105)
logger_name(c) == ModuleName \o "." \o class_name(c)
\* every name the registry of the host may hold
LoggerNames == Names \cup {logger_name(c) : c \in Classes}
\* a class with no entry in LoggingMixin._loggers
NoLogger == ""
\* prefixes passed by callers; "" is the omitted prefix
Prefixes == {"", "A", "B"}
CUSTOM_FORMAT == "[{prefix}] %(levelname)s: %(message)s"
FormatStrings == {DEFAULT_FORMAT_WITH_PREFIX, CUSTOM_FORMAT}
CUSTOM_DATE_FORMAT == "%Y-%m-%d"
\* a format with an optional prefix segment after the timestamp
OPTIONAL_FORMAT == "[%(asctime)s][{prefix}] %(name)s: %(message)s"
DateFormats == {DEFAULT_DATE_FORMAT, CUSTOM_DATE_FORMAT}
Levels == {DEBUG, INFO, WARNING}

\* the threads of the application that call into LoggerConfig
Threads == {1, 2}

VARIABLES
    configured,         \* LoggerConfig._configured
    prefix,             \* LoggerConfig._prefix
    format_string,      \* LoggerConfig._format_string
    date_format,        \* LoggerConfig._date_format
    level,              \* LoggerConfig._level
    handlers,           \* LoggerConfig._handlers (a list, duplicates possible)
    default_handler,    \* LoggerConfig._default_handler (NoSink = None)
    rootLevel,          \* logging.getLogger().level
    rootHandlers,       \* logging.getLogger().handlers
    loggerDict,         \* names in logging.Logger.manager.loggerDict
    logLevel,           \* name -> logger.level
    propagate,          \* name -> logger.propagate
    logHandlers,        \* name -> logger.handlers
    sinkFmt,            \* sink -> handler.formatter
    sinkLevel,          \* sink -> handler.level
    active_format,      \* Logger._active_format
    active_date_format, \* Logger._active_date_format
    loggers,            \* LoggingMixin._loggers: class -> name of its logger
    log_level,          \* class -> the log_level attribute set on that class
    out,                \* the lines the last call wrote, one per sink that emitted
    threads,            \* thread -> where it is in the call it makes, and its locals
    held,               \* the field values LoggerConfig held while a thread was in a call
    last                \* the operation that produced this state

cfgVars == <<configured, prefix, format_string, date_format, level, handlers, default_handler>>
logVars == <<rootLevel, rootHandlers, loggerDict, logLevel, propagate, logHandlers>>
sinkVars == <<sinkFmt, sinkLevel>>
mixinVars == <<loggers, log_level>>
threadVars == <<threads, held>>
vars == <<cfgVars, logVars, sinkVars, active_format, active_date_format, mixinVars, out,
          threadVars, last>>

(***************************** formatters **********************************)
\* handler.formatter is None
NoFormatter == [kind |-> "none", fmt |-> "", datefmt |-> "", template_vars |-> {}]

\* ExtraFieldsFormatter(fmt, datefmt, template_vars)
ExtraFieldsFormatter(fmt, datefmt, tv) ==
    [kind |-> "extra", fmt |-> fmt, datefmt |-> datefmt, template_vars |-> tv]

\* logging.Formatter(fmt, datefmt), as logging.basicConfig builds it
PlainFormatter(fmt, datefmt) ==
    [kind |-> "plain", fmt |-> fmt, datefmt |-> datefmt, template_vars |-> {}]

(************************* rendering a record ******************************)
\* Text is a sequence of pieces: a bracket, a space, a placeholder, a word.
\* The pieces of the format strings in use:
Chars(f) ==
    CASE f = DEFAULT_FORMAT ->
             <<"[", "%(asctime)s", "]", "[", "%(name)s", "]", "[", "%(levelname)s", "]",
               "[", "%(filename)s", ":", "%(lineno)d", "]", ":", " ", "%(message)s">>
      [] f = DEFAULT_FORMAT_WITH_PREFIX ->
             <<"[", "%(asctime)s", "]", "[", "{prefix}", "]", "[", "%(name)s", "]",
               "[", "%(levelname)s", "]", "[", "%(filename)s", ":", "%(lineno)d", "]",
               ":", " ", "%(message)s">>
      [] f = CUSTOM_FORMAT ->
             <<"[", "{prefix}", "]", " ", "%(levelname)s", ":", " ", "%(message)s">>
      [] f = OPTIONAL_FORMAT ->
             <<"[", "%(asctime)s", "]", "[", "{prefix}", "]", " ", "%(name)s", ":", " ",
               "%(message)s">>
      [] OTHER -> <<f>>

\* ExtraFieldsFormatter._STANDARD_ATTRS
STANDARD_ATTRS ==
    {"name", "msg", "args", "created", "filename", "funcName", "levelname", "levelno",
     "lineno", "module", "msecs", "message", "pathname", "process", "processName",
     "relativeCreated", "thread", "threadName", "exc_info", "exc_text", "stack_info",
     "taskName", "asctime"}

\* values passed in extra={...}: a string, a number, an object json cannot
\* encode itself (default=str encodes it), a dict that contains itself, a list
\* nested deeper than the interpreter's recursion limit
StrValue(t) == [kind |-> "str", text |-> t]
IntValue(t) == [kind |-> "int", text |-> t]
ObjValue(t) == [kind |-> "object", text |-> t]
CircularValue == [kind |-> "circular", text |-> "{...}"]
DeepValue == [kind |-> "deep", text |-> "[[...]]"]

\* logging.getLevelName
LevelName(l) ==
    CASE l = DEBUG -> "DEBUG" [] l = INFO -> "INFO" [] l = WARNING -> "WARNING"
      [] OTHER -> "NOTSET"

\* the LogRecord of logger.log(levelno, msg, extra=extra): record.__dict__ in
\* insertion order, the attributes LogRecord sets itself and then the extra ones
record_dict(r) ==
    << <<"name", StrValue(r.name)>>, <<"msg", StrValue(r.msg)>>,
       <<"levelname", StrValue(LevelName(r.levelno))>>,
       <<"filename", StrValue(r.filename)>>, <<"lineno", IntValue(r.lineno)>> >>
    \o r.extra
    \o << <<"message", StrValue(r.msg)>>, <<"asctime", StrValue("asctime")>> >>

\* logging.Formatter.formatTime with this date format
asctime(datefmt) == "<" \o datefmt \o ">"

\* logging.Formatter.format: %-substitution of the record's fields
RECURSIVE percent_format(_, _, _)
percent_format(t, datefmt, r) ==
    IF t = <<>> THEN <<>>
    ELSE << CASE Head(t) = "%(asctime)s" -> asctime(datefmt)
              [] Head(t) = "%(name)s" -> r.name
              [] Head(t) = "%(levelname)s" -> LevelName(r.levelno)
              [] Head(t) = "%(filename)s" -> r.filename
              [] Head(t) = "%(lineno)d" -> r.lineno
              [] Head(t) = "%(message)s" -> r.msg
              [] OTHER -> Head(t) >>
         \o percent_format(Tail(t), datefmt, r)

\* str.replace("{key}", value) for each template variable
RECURSIVE replace_vars(_, _)
replace_vars(t, tv) ==
    IF t = <<>> THEN <<>>
    ELSE LET hit == {kv \in tv : Head(t) = "{" \o kv[1] \o "}"}
         IN  (IF hit = {} THEN <<Head(t)>>
              ELSE LET v == (CHOOSE kv \in hit : TRUE)[2]
                   IN  IF v = "" THEN <<>> ELSE <<v>>)
             \o replace_vars(Tail(t), tv)

\* the text after its leading whitespace
RECURSIVE skip_spaces(_)
skip_spaces(t) ==
    IF t # <<>> /\ Head(t) = " " THEN skip_spaces(Tail(t)) ELSE t

\* re.sub(r"\[\]\s*", "", text)
RECURSIVE strip_empty_brackets(_)
strip_empty_brackets(t) ==
    IF t = <<>> THEN <<>>
    ELSE IF Len(t) >= 2 /\ t[1] = "[" /\ t[2] = "]"
    THEN strip_empty_brackets(skip_spaces(SubSeq(t, 3, Len(t))))
    ELSE <<Head(t)>> \o strip_empty_brackets(Tail(t))

\* re.sub(r"  +", " ", text)
RECURSIVE collapse_spaces(_)
collapse_spaces(t) ==
    IF t = <<>> THEN <<>>
    ELSE IF Len(t) >= 2 /\ t[1] = " " /\ t[2] = " "
    THEN collapse_spaces(Tail(t))
    ELSE <<Head(t)>> \o collapse_spaces(Tail(t))

\* ExtraFieldsFormatter._resolve_template
resolve_template(fmt, tv) ==
    IF tv = {} THEN fmt
    ELSE LET cleaned == collapse_spaces(strip_empty_brackets(replace_vars(fmt, tv)))
         IN  IF cleaned # <<>> /\ Head(cleaned) = " " THEN Tail(cleaned) ELSE cleaned

\* json.dumps of one value, default=str
json_value(v) ==
    IF v.kind = "int" THEN v.text ELSE "\"" \o v.text \o "\""

\* the members of a JSON object, in the order of the pairs
RECURSIVE json_members(_)
json_members(pairs) ==
    IF pairs = <<>> THEN <<>>
    ELSE << "\"" \o Head(pairs)[1] \o "\"", ": ", json_value(Head(pairs)[2]) >>
         \o (IF Tail(pairs) = <<>> THEN <<>> ELSE <<", ">>)
         \o json_members(Tail(pairs))

\* json.dumps(extra_fields, default=str): ValueError on a circular reference,
\* RecursionError on a value nested too deep; the first value that fails decides
json_dumps(pairs) ==
    LET failing == {i \in 1..Len(pairs) : pairs[i][2].kind \in {"circular", "deep"}}
        first == CHOOSE i \in failing : \A j \in failing : i <= j
    IN  [ok |-> failing = {},
         error |-> IF failing = {} THEN ""
                   ELSE IF pairs[first][2].kind = "circular" THEN "ValueError"
                   ELSE "RecursionError",
         text |-> <<"{">> \o json_members(pairs) \o <<"}">>]

\* repr of one value
repr_value(v) ==
    IF v.kind = "str" THEN "'" \o v.text \o "'" ELSE v.text

\* the members of str(dict), in the order of the pairs
RECURSIVE repr_members(_)
repr_members(pairs) ==
    IF pairs = <<>> THEN <<>>
    ELSE << "'" \o Head(pairs)[1] \o "'", ": ", repr_value(Head(pairs)[2]) >>
         \o (IF Tail(pairs) = <<>> THEN <<>> ELSE <<", ">>)
         \o repr_members(Tail(pairs))

\* f"{extra_fields}"
dict_str(pairs) == <<"{">> \o repr_members(pairs) \o <<"}">>

\* variant: every field of the record counts as extra
extra_fields_unfiltered(r) == record_dict(r)

\* the fields of the record outside the standard ones (formatter.py:169)
extra_fields(r) ==
    SelectSeq(record_dict(r), LAMBDA kv : kv[1] \notin STANDARD_ATTRS)

\* what a formatter call comes to: the line it returns, or an exception
Returns(line) == [raised |-> FALSE, line |-> line]
Raises == [raised |-> TRUE, line |-> <<>>]

\* ExtraFieldsFormatter.format
format(f, r) ==
    LET fmt == Chars(f.fmt)
        msg == IF f.template_vars # {} /\ f.fmt # ""
               THEN percent_format(resolve_template(fmt, f.template_vars), f.datefmt, r)
               ELSE percent_format(fmt, f.datefmt, r)
        extra == extra_fields(r)
    IN  IF extra = <<>> THEN Returns(msg)
        ELSE LET dumped == json_dumps(extra)
             IN  IF dumped.ok
                 THEN Returns(msg \o <<" | extra: ">> \o dumped.text)
                 ELSE IF dumped.error \in {"TypeError", "ValueError"}
                 THEN Returns(msg \o <<" | extra: ">> \o dict_str(extra))
                 ELSE Raises

\* logging.Handler.format: the handler's formatter, or the "%(message)s" of
\* the host when it has none
handler_format(f, r) ==
    IF f.kind = "extra" THEN format(f, r)
    ELSE IF f.kind = "plain" THEN Returns(percent_format(Chars(f.fmt), f.datefmt, r))
    ELSE Returns(<<r.msg>>)

(************************ the host's handler lists *************************)
Contains(seq, x) == \E i \in 1..Len(seq) : seq[i] = x

Count(seq, x) == Cardinality({i \in 1..Len(seq) : seq[i] = x})

\* logging.Logger.addHandler: append unless the very handler is already there
addHandler(seq, h) == IF Contains(seq, h) THEN seq ELSE Append(seq, h)

\* list.remove / logging.Logger.removeHandler: drop the first occurrence
removeHandler(seq, h) ==
    IF ~Contains(seq, h) THEN seq
    ELSE LET i == CHOOSE k \in 1..Len(seq) :
                      seq[k] = h /\ \A j \in 1..(k - 1) : seq[j] # h
         IN  SubSeq(seq, 1, i - 1) \o SubSeq(seq, i + 1, Len(seq))

RECURSIVE addAll(_, _)
addAll(seq, hs) ==
    IF hs = <<>> THEN seq ELSE addAll(addHandler(seq, Head(hs)), Tail(hs))

Range(seq) == {seq[i] : i \in 1..Len(seq)}

(***************************** state record ********************************)
State ==
    [configured |-> configured, prefix |-> prefix, format_string |-> format_string,
     date_format |-> date_format, level |-> level, handlers |-> handlers,
     default_handler |-> default_handler, rootLevel |-> rootLevel,
     rootHandlers |-> rootHandlers, loggerDict |-> loggerDict, logLevel |-> logLevel,
     propagate |-> propagate, logHandlers |-> logHandlers, sinkFmt |-> sinkFmt,
     sinkLevel |-> sinkLevel, active_format |-> active_format,
     active_date_format |-> active_date_format,
     loggers |-> loggers, log_level |-> log_level,
     threads |-> threads, held |-> held,
     out |-> <<>>,      \* what the operation writes to the sinks
     raised |-> FALSE]  \* set when the operation raises RuntimeError

\* a sink object is alive while the configuration or a logger refers to it
Referenced(s, h) ==
    \/ h = s.default_handler
    \/ Contains(s.handlers, h)
    \/ Contains(s.rootHandlers, h)
    \/ \E n \in LoggerNames : Contains(s.logHandlers[n], h)

CanAllocate(s) == \E h \in SynthSinks : ~Referenced(s, h)

\* a new logging.StreamHandler(sys.stdout): an identity no live object has
Fresh(s) == CHOOSE h \in SynthSinks :
                /\ ~Referenced(s, h)
                /\ \A g \in SynthSinks : g < h => Referenced(s, g)

\* a sink the library built and nothing refers to any more is garbage:
\* its fields are dropped with it
Collect(s) ==
    [s EXCEPT !.sinkFmt = [h \in Sinks |->
                  IF h \in SynthSinks /\ ~Referenced(s, h) THEN NoFormatter ELSE @[h]],
              !.sinkLevel = [h \in Sinks |->
                  IF h \in SynthSinks /\ ~Referenced(s, h) THEN NOTSET ELSE @[h]]]

(**************************** LoggerConfig *********************************)
\* LoggerConfig._create_formatter
create_formatter(s) ==
    ExtraFieldsFormatter(
        IF s.format_string # "" THEN s.format_string ELSE DEFAULT_FORMAT,
        IF s.date_format # "" THEN s.date_format ELSE DEFAULT_DATE_FORMAT,
        IF s.prefix # "" THEN {<<"prefix", s.prefix>>} ELSE {})

\* variant: pushes the level to the loggers and leaves their sinks' formatters
update_existing_loggers_levels_only(s) ==
    LET touched == UNION {Range(s.logHandlers[n]) : n \in s.loggerDict}
    IN  [s EXCEPT
            !.logLevel = [n \in LoggerNames |-> IF n \in s.loggerDict THEN s.level ELSE @[n]],
            !.sinkLevel = [h \in Sinks |-> IF h \in touched THEN s.level ELSE @[h]]]

\* LoggerConfig._update_existing_loggers
update_existing_loggers(s) ==
    LET formatter == create_formatter(s)
        touched == UNION {Range(s.logHandlers[n]) : n \in s.loggerDict}
    IN  [s EXCEPT
            !.logLevel = [n \in LoggerNames |-> IF n \in s.loggerDict THEN s.level ELSE @[n]],
            !.sinkFmt = [h \in Sinks |-> IF h \in touched THEN formatter ELSE @[h]],
            !.sinkLevel = [h \in Sinks |-> IF h \in touched THEN s.level ELSE @[h]]]

\* the handler path of LoggerConfig.configure (config.py:120-128)
select_handlers(s, a) ==
    IF a.default_handler # NoSink
    THEN [s EXCEPT !.default_handler = a.default_handler]
    ELSE IF a.hasHandlers
    THEN [s EXCEPT !.handlers = a.handlers, !.default_handler = NoSink]
    ELSE LET h == Fresh(s)
         IN  [s EXCEPT !.default_handler = h,
                       !.sinkFmt[h] = NoFormatter,
                       !.sinkLevel[h] = a.level,
                       !.handlers = <<>>]

\* variant: a forced call leaves the handlers the root logger had
attach_root_keep(s, a) ==
    [s EXCEPT !.rootLevel = a.level,
              !.rootHandlers =
                  IF s.default_handler # NoSink
                  THEN addHandler(s.rootHandlers, s.default_handler)
                  ELSE addAll(s.rootHandlers, s.handlers)]

\* the root logger part of LoggerConfig.configure (config.py:130-140)
attach_root(s, a) ==
    LET cleared == IF a.force THEN <<>> ELSE s.rootHandlers
    IN  [s EXCEPT !.rootLevel = a.level,
                  !.rootHandlers =
                      IF s.default_handler # NoSink
                      THEN addHandler(cleared, s.default_handler)
                      ELSE addAll(cleared, s.handlers)]

\* variant: a reconfiguration keeps the date format it had
assign_fields_keep_date(s, a) ==
    [s EXCEPT !.configured = TRUE,
              !.prefix = IF ~s.configured \/ a.prefix # "" THEN a.prefix ELSE @,
              !.format_string = a.format_string,
              !.date_format = IF s.configured THEN @ ELSE a.date_format,
              !.level = a.level]

\* variant: a reconfiguration clears the configured flag
assign_fields_toggle(s, a) ==
    [s EXCEPT !.configured = ~s.configured,
              !.prefix = IF ~s.configured \/ a.prefix # "" THEN a.prefix ELSE @,
              !.format_string = a.format_string,
              !.date_format = a.date_format,
              !.level = a.level]

\* variant: every reconfiguration assigns the prefix passed
assign_fields_replace_prefix(s, a) ==
    [s EXCEPT !.configured = TRUE,
              !.prefix = a.prefix,
              !.format_string = a.format_string,
              !.date_format = a.date_format,
              !.level = a.level]

\* the fields LoggerConfig.configure assigns (config.py:107-118)
assign_fields(s, a) ==
    [s EXCEPT !.configured = TRUE,
              !.prefix = IF ~s.configured \/ a.prefix # "" THEN a.prefix ELSE @,
              !.format_string = a.format_string,
              !.date_format = a.date_format,
              !.level = a.level]

\* variant: no early return, every call reconfigures
configure_always(s, a) ==
    LET s1 == assign_fields(s, a)
        s2 == select_handlers(s1, a)
        s3 == attach_root(s2, a)
    IN  update_existing_loggers(s3)

\* LoggerConfig.configure
configure(s, a) ==
    IF s.configured /\ ~a.force
    THEN s
    ELSE LET s1 == assign_fields(s, a)
             s2 == select_handlers(s1, a)
             s3 == attach_root(s2, a)
         IN  update_existing_loggers(s3)

\* configure() called with these arguments omitted
DefaultArgs(p, f) ==
    [prefix |-> p, format_string |-> f, date_format |-> DEFAULT_DATE_FORMAT,
     level |-> INFO, hasHandlers |-> FALSE, handlers |-> <<>>,
     default_handler |-> NoSink, force |-> FALSE]

\* variant: no auto-configuration, the prefix is stored and pushed only
set_prefix_no_auto(s, p) ==
    update_existing_loggers([s EXCEPT !.prefix = p])

\* variant: every call reconfigures with the defaults, as the first one does
set_prefix_reconfigure(s, p) ==
    LET s1 == configure(s, [DefaultArgs(p, DEFAULT_FORMAT_WITH_PREFIX) EXCEPT !.force = TRUE])
    IN  update_existing_loggers([s1 EXCEPT !.prefix = p])

\* LoggerConfig.set_prefix
set_prefix(s, p) ==
    LET s1 == IF ~s.configured
              THEN configure(s, DefaultArgs(p, DEFAULT_FORMAT_WITH_PREFIX))
              ELSE s
    IN  update_existing_loggers([s1 EXCEPT !.prefix = p])

\* variant: no configured check
add_handler_unchecked(s, h) ==
    [s EXCEPT !.handlers = Append(@, h),
              !.rootHandlers = addHandler(@, h),
              !.logHandlers = [n \in LoggerNames |->
                  IF n \in s.loggerDict THEN addHandler(@[n], h) ELSE @[n]]]

\* variant: the sink is attached to the root logger only
add_handler_root_only(s, h) ==
    IF ~s.configured
    THEN [s EXCEPT !.raised = TRUE]
    ELSE [s EXCEPT !.handlers = Append(@, h), !.rootHandlers = addHandler(@, h)]

\* LoggerConfig.add_handler
add_handler(s, h) ==
    IF ~s.configured
    THEN [s EXCEPT !.raised = TRUE]
    ELSE
    [s EXCEPT !.handlers = Append(@, h),
              !.rootHandlers = addHandler(@, h),
              !.logHandlers = [n \in LoggerNames |->
                  IF n \in s.loggerDict THEN addHandler(@[n], h) ELSE @[n]]]

\* variant: raises when unconfigured, as add_handler does
remove_handler_raises(s, h) ==
    IF ~s.configured
    THEN [s EXCEPT !.raised = TRUE]
    ELSE [s EXCEPT !.handlers = removeHandler(@, h),
                   !.rootHandlers = removeHandler(@, h),
                   !.logHandlers = [n \in LoggerNames |->
                       IF n \in s.loggerDict THEN removeHandler(@[n], h) ELSE @[n]]]

\* LoggerConfig.remove_handler
remove_handler(s, h) ==
    IF ~s.configured
    THEN s
    ELSE [s EXCEPT !.handlers = removeHandler(@, h),
                   !.rootHandlers = removeHandler(@, h),
                   !.logHandlers = [n \in LoggerNames |->
                       IF n \in s.loggerDict THEN removeHandler(@[n], h) ELSE @[n]]]

\* variant: the previous default handler is left where it is attached
set_default_handler_keep_previous(s, h) ==
    IF ~s.configured
    THEN [s EXCEPT !.raised = TRUE]
    ELSE
    LET s2 == [s EXCEPT !.default_handler = h, !.sinkLevel[h] = s.level]
        s3 == [s2 EXCEPT !.sinkFmt[h] = create_formatter(s2)]
    IN  [s3 EXCEPT !.rootHandlers = addHandler(@, h),
                   !.logHandlers = [n \in LoggerNames |->
                       IF n \in s3.loggerDict /\ @[n] = <<>>
                       THEN addHandler(@[n], h) ELSE @[n]]]

\* variant: the new default handler is attached to every named logger
set_default_handler_attach_all(s, h) ==
    IF ~s.configured
    THEN [s EXCEPT !.raised = TRUE]
    ELSE
    LET s1 == IF s.default_handler # NoSink
              THEN remove_handler(s, s.default_handler)
              ELSE s
        s2 == [s1 EXCEPT !.default_handler = h, !.sinkLevel[h] = s1.level]
        s3 == [s2 EXCEPT !.sinkFmt[h] = create_formatter(s2)]
    IN  [s3 EXCEPT !.rootHandlers = addHandler(@, h),
                   !.logHandlers = [n \in LoggerNames |->
                       IF n \in s3.loggerDict THEN addHandler(@[n], h) ELSE @[n]]]

\* LoggerConfig.set_default_handler
set_default_handler(s, h) ==
    IF ~s.configured
    THEN [s EXCEPT !.raised = TRUE]
    ELSE
    LET s1 == IF s.default_handler # NoSink
              THEN remove_handler(s, s.default_handler)
              ELSE s
        s2 == [s1 EXCEPT !.default_handler = h, !.sinkLevel[h] = s1.level]
        s3 == [s2 EXCEPT !.sinkFmt[h] = create_formatter(s2)]
    IN  [s3 EXCEPT !.rootHandlers = addHandler(@, h),
                   !.logHandlers = [n \in LoggerNames |->
                       IF n \in s3.loggerDict /\ @[n] = <<>>
                       THEN addHandler(@[n], h) ELSE @[n]]]

(******************************* Logger ************************************)
\* Logger._create_handler: the formatter of the handler it builds
handler_formatter(s) ==
    IF s.configured
    THEN create_formatter(s)
    ELSE ExtraFieldsFormatter(s.active_format, s.active_date_format, {})

\* variant: the root threshold is consulted before the configuration
determine_effective_level_root_first(s, lvl) ==
    IF lvl # NoLevel THEN lvl
    ELSE IF s.rootLevel # NOTSET THEN s.rootLevel
    ELSE IF s.configured THEN s.level
    ELSE INFO

\* Logger._determine_effective_level
determine_effective_level(s, lvl) ==
    IF lvl # NoLevel THEN lvl
    ELSE IF s.configured THEN s.level
    ELSE IF s.rootLevel # NOTSET THEN s.rootLevel
    ELSE INFO

\* variant: no sink of the logger is ever found adequate
has_handler_never(s, name) == FALSE

\* Logger._has_handler
has_handler(s, name) ==
    IF s.configured
    THEN \/ Len(s.logHandlers[name]) > 0
         \/ (Range(s.handlers) \cup (IF s.default_handler # NoSink
                                      THEN {s.default_handler} ELSE {}))
                \cap Range(s.logHandlers[name]) # {}
    ELSE \E h \in Range(s.logHandlers[name]) : s.sinkFmt[h].kind = "extra"

\* Logger._add_handlers_to_logger
add_handlers_to_logger(s, name, effective_level) ==
    LET h == Fresh(s)
        s1 == [s EXCEPT !.sinkLevel[h] = effective_level,
                        !.sinkFmt[h] = handler_formatter(s),
                        !.logHandlers[name] = addHandler(@, h)]
    IN  IF s1.configured
        THEN [s1 EXCEPT !.logHandlers[name] = addAll(@, s1.handlers)]
        ELSE s1

\* Logger._apply_formatter_to_logger
apply_formatter_to_logger(s, name, effective_level) ==
    IF s.configured
    THEN LET formatter == create_formatter(s)
             own == Range(s.logHandlers[name])
         IN  [s EXCEPT
                 !.sinkFmt = [h \in Sinks |-> IF h \in own THEN formatter ELSE @[h]],
                 !.sinkLevel = [h \in Sinks |-> IF h \in own THEN effective_level ELSE @[h]]]
    ELSE s

\* variant: the logger keeps the propagate flag it has
get_logger_propagating(s, name, lvl) ==
    LET effective_level == determine_effective_level(s, lvl)
        s1 == [s EXCEPT !.loggerDict = @ \cup {name},
                        !.logLevel[name] = effective_level]
        s2 == IF ~has_handler(s1, name)
              THEN add_handlers_to_logger(s1, name, effective_level)
              ELSE s1
    IN  apply_formatter_to_logger(s2, name, effective_level)

\* Logger.get_logger
get_logger(s, name, lvl) ==
    LET effective_level == determine_effective_level(s, lvl)
        s1 == [s EXCEPT !.loggerDict = @ \cup {name},
                        !.logLevel[name] = effective_level,
                        !.propagate[name] = FALSE]
        s2 == IF ~has_handler(s1, name)
              THEN add_handlers_to_logger(s1, name, effective_level)
              ELSE s1
    IN  apply_formatter_to_logger(s2, name, effective_level)

\* Logger.set_log_format (None is the omitted argument, written "")
set_log_format(s, f, d) ==
    LET s1 == [s EXCEPT !.active_format = IF f # "" THEN f ELSE DEFAULT_FORMAT,
                        !.active_date_format = IF d # "" THEN d ELSE DEFAULT_DATE_FORMAT]
        touched == {h \in UNION {Range(s.logHandlers[n]) : n \in s.loggerDict} :
                        s.sinkFmt[h].kind = "extra"}
        formatter == ExtraFieldsFormatter(s1.active_format, s1.active_date_format, {})
    IN  [s1 EXCEPT !.sinkFmt = [h \in Sinks |-> IF h \in touched THEN formatter ELSE @[h]]]

\* Logger.__init__ and Logger._config with no extra keyword argument:
\* logging.basicConfig acts only on a root logger that has no handler
logger_init(s, lvl, f) ==
    LET s1 == IF f # ""
              THEN [s EXCEPT !.active_format = f,
                             !.active_date_format = DEFAULT_DATE_FORMAT]
              ELSE s
        h == Fresh(s1)
    IN  IF s1.rootHandlers # <<>>
        THEN s1
        ELSE [s1 EXCEPT !.sinkLevel[h] = NOTSET,
                        !.sinkFmt[h] = PlainFormatter(
                            IF f # "" THEN f ELSE DEFAULT_FORMAT, DEFAULT_DATE_FORMAT),
                        !.rootHandlers = <<h>>,
                        !.rootLevel = lvl]

(************************** logging a record *******************************)
\* logging.Logger.getEffectiveLevel of a named logger (flat names: the parent
\* is the root logger)
getEffectiveLevel(s, name) ==
    IF s.logLevel[name] # NOTSET THEN s.logLevel[name] ELSE s.rootLevel

\* logging.Logger.log(levelno, msg, extra=...) on a named logger: isEnabledFor,
\* then callHandlers; each handler at or below the record's level writes the
\* line its formatter renders; a handler whose formatter raises writes nothing
\* (logging.Handler.handleError takes the exception)
log(s, name, r) ==
    LET chain == s.logHandlers[name]
                 \o (IF s.propagate[name] THEN s.rootHandlers ELSE <<>>)
        emitting == SelectSeq(chain, LAMBDA h :
                        /\ r.levelno >= s.sinkLevel[h]
                        /\ ~handler_format(s.sinkFmt[h], r).raised)
    IN  IF r.levelno >= getEffectiveLevel(s, name)
        THEN [s EXCEPT !.out = [i \in 1..Len(emitting) |->
                 [sink |-> emitting[i],
                  line |-> handler_format(s.sinkFmt[emitting[i]], r).line]]]
        ELSE s

(**************************** LoggingMixin *********************************)
\* the class a class derives from ("" for a class that derives from the mixin)
Parent(c) == IF c = "UserService" THEN "BaseService" ELSE ""

\* cls.log_level: the attribute of the class itself, else the inherited one,
\* else the None of LoggingMixin
class_log_level(s, c) ==
    IF s.log_level[c] # NoLevel THEN s.log_level[c]
    ELSE IF Parent(c) # "" THEN s.log_level[Parent(c)]
    ELSE NoLevel

\* logger.setLevel(v) and handler.setLevel(v) for each handler of the logger
set_levels(s, name, v) ==
    LET own == Range(s.logHandlers[name])
    IN  [s EXCEPT !.logLevel[name] = v,
                  !.sinkLevel = [h \in Sinks |-> IF h \in own THEN v ELSE @[h]]]

\* set_log_level that also forgets the cached logger of the class
set_log_level_evict(s, c, v) ==
    LET s1 == [s EXCEPT !.log_level[c] = v]
    IN  IF s1.loggers[c] # NoLogger
        THEN [set_levels(s1, s1.loggers[c], v) EXCEPT !.loggers[c] = NoLogger]
        ELSE s1

\* set_log_level that also sets the level of the cached loggers of the
\* subclasses of the class
set_log_level_subclasses(s, c, v) ==
    LET s1 == [s EXCEPT !.log_level[c] = v]
        s2 == IF s1.loggers[c] # NoLogger THEN set_levels(s1, s1.loggers[c], v) ELSE s1
        subs == {d \in Classes : Parent(d) = c /\ s2.loggers[d] # NoLogger}
    IN  [s2 EXCEPT !.logLevel = [n \in LoggerNames |->
                       IF \E d \in subs : s2.loggers[d] = n THEN v ELSE @[n]]]

\* set_log_level that sets the level of the cached logger and leaves the
\* levels of its handlers
set_log_level_logger_only(s, c, v) ==
    LET s1 == [s EXCEPT !.log_level[c] = v]
    IN  IF s1.loggers[c] # NoLogger
        THEN [s1 EXCEPT !.logLevel[s1.loggers[c]] = v]
        ELSE s1

\* LoggingMixin.set_log_level
set_log_level(s, c, v) ==
    LET s1 == [s EXCEPT !.log_level[c] = v]
    IN  IF s1.loggers[c] # NoLogger
        THEN set_levels(s1, s1.loggers[c], v)
        ELSE s1

\* _get_logger keyed and named by the class that defines the method: the
\* base class for a subclass
class_get_logger_defining_class(s, c, lvl) ==
    LET d == IF Parent(c) # "" THEN Parent(c) ELSE c
    IN  IF s.loggers[d] = NoLogger
        THEN LET effective_level == IF lvl # NoLevel /\ lvl # NOTSET
                                    THEN lvl ELSE class_log_level(s, d)
                 s1 == get_logger(s, logger_name(d), effective_level)
             IN  [s1 EXCEPT !.loggers[d] = logger_name(d)]
        ELSE IF lvl # NoLevel
        THEN set_levels(s, s.loggers[d], lvl)
        ELSE s

\* _get_logger that hands only the level argument to the factory and never
\* the log_level of the class
class_get_logger_no_default(s, c, lvl) ==
    IF s.loggers[c] = NoLogger
    THEN LET s1 == get_logger(s, logger_name(c), IF lvl = NOTSET THEN NoLevel ELSE lvl)
         IN  [s1 EXCEPT !.loggers[c] = logger_name(c)]
    ELSE IF lvl # NoLevel
    THEN set_levels(s, s.loggers[c], lvl)
    ELSE s

\* _get_logger whose level argument is not applied to a logger that is
\* already cached
class_get_logger_one_off(s, c, lvl) ==
    IF s.loggers[c] = NoLogger
    THEN LET effective_level == IF lvl # NoLevel /\ lvl # NOTSET
                                THEN lvl ELSE class_log_level(s, c)
             s1 == get_logger(s, logger_name(c), effective_level)
         IN  [s1 EXCEPT !.loggers[c] = logger_name(c)]
    ELSE s

\* LoggingMixin._get_logger ("level or cls.log_level": a level of 0 counts as none)
class_get_logger(s, c, lvl) ==
    IF s.loggers[c] = NoLogger
    THEN LET effective_level == IF lvl # NoLevel /\ lvl # NOTSET
                                THEN lvl ELSE class_log_level(s, c)
             s1 == get_logger(s, logger_name(c), effective_level)
         IN  [s1 EXCEPT !.loggers[c] = logger_name(c)]
    ELSE IF lvl # NoLevel
    THEN set_levels(s, s.loggers[c], lvl)
    ELSE s

(************************ calls made by threads ****************************)
\* a thread that is in no call
Idle ==
    [pc |-> "idle", op |-> "", args |-> DefaultArgs("", ""), prefix |-> "",
     handler |-> NoSink, was_configured |-> FALSE, format_string |-> "",
     date_format |-> "", formatter |-> NoFormatter, todo |-> <<>>, logger |-> NoLogger,
     index |-> 0, return |-> "done", raised |-> FALSE,
     name |-> NoLogger, level |-> NoLevel, effective_level |-> NoLevel,
     has_handler |-> FALSE]

\* a thread whose call has returned (raised: with RuntimeError); its locals
\* are gone, what it called and the arguments it passed are remembered
Done(my, raised) ==
    [Idle EXCEPT !.pc = "done", !.op = my.op, !.args = my.args, !.raised = raised]

\* the order logging.Logger.manager.loggerDict is walked in, the same for
\* every thread
NameOrder == <<"a", "b", logger_name("BaseService"), logger_name("UserService")>>

RECURSIVE names_in(_, _)
names_in(order, dict) ==
    IF order = <<>> THEN <<>>
    ELSE (IF Head(order) \in dict THEN <<Head(order)>> ELSE <<>>)
         \o names_in(Tail(order), dict)

\* the values of the configuration fields a formatter and a level are taken from
Snapshot(s) ==
    [prefix |-> s.prefix, format_string |-> s.format_string,
     date_format |-> s.date_format, level |-> s.level]

\* the thread goes on at the statement pc
goto(s, t, pc) == [s EXCEPT !.threads[t].pc = pc]

\* a call of the thread returns: to set_prefix if set_prefix made it, else to
\* the application
leave(s, t) ==
    IF s.threads[t].return = "done"
    THEN [s EXCEPT !.threads[t] = Done(@, FALSE)]
    ELSE [s EXCEPT !.threads[t].pc = s.threads[t].return, !.threads[t].return = "done"]

\* one statement of LoggerConfig.configure run by thread t (config.py:104-142);
\* the handler path (120-128) and the root logger part (130-140) are one step each
configure_step(s, t) ==
    LET my == s.threads[t]
        a == my.args
    IN  CASE my.pc = "configure_check" ->
                 IF s.configured /\ ~a.force THEN leave(s, t)
                 ELSE goto(s, t, "configure_was_configured")
          [] my.pc = "configure_was_configured" ->
                 [s EXCEPT !.threads[t].was_configured = s.configured,
                           !.threads[t].pc = "configure_flag"]
          [] my.pc = "configure_flag" ->
                 [s EXCEPT !.configured = TRUE, !.threads[t].pc = "configure_prefix"]
          [] my.pc = "configure_prefix" ->
                 [s EXCEPT !.prefix = IF ~my.was_configured \/ a.prefix # ""
                                      THEN a.prefix ELSE @,
                           !.threads[t].pc = "configure_format"]
          [] my.pc = "configure_format" ->
                 [s EXCEPT !.format_string = a.format_string,
                           !.threads[t].pc = "configure_date"]
          [] my.pc = "configure_date" ->
                 [s EXCEPT !.date_format = a.date_format,
                           !.threads[t].pc = "configure_level"]
          [] my.pc = "configure_level" ->
                 [s EXCEPT !.level = a.level, !.threads[t].pc = "configure_handlers"]
          [] my.pc = "configure_handlers" ->
                 goto(select_handlers(s, a), t, "configure_root")
          [] my.pc = "configure_root" ->
                 goto(attach_root(s, a), t, "update_format")

ConfigurePcs ==
    {"configure_check", "configure_was_configured", "configure_flag", "configure_prefix",
     "configure_format", "configure_date", "configure_level", "configure_handlers",
     "configure_root"}

\* one statement of LoggerConfig._update_existing_loggers run by thread t
\* (config.py:303-314), _create_formatter (286-301) included: the formatter is
\* built once from the fields as they are read, the level is read again for
\* every logger and every handler
update_step(s, t) ==
    LET my == s.threads[t]
    IN  CASE my.pc = "update_format" ->
                 [s EXCEPT !.threads[t].format_string =
                               IF s.format_string # "" THEN s.format_string
                               ELSE DEFAULT_FORMAT,
                           !.threads[t].pc = "update_date"]
          [] my.pc = "update_date" ->
                 [s EXCEPT !.threads[t].date_format =
                               IF s.date_format # "" THEN s.date_format
                               ELSE DEFAULT_DATE_FORMAT,
                           !.threads[t].pc = "update_formatter"]
          [] my.pc = "update_formatter" ->
                 [s EXCEPT !.threads[t].formatter =
                               ExtraFieldsFormatter(my.format_string, my.date_format,
                                   IF s.prefix # "" THEN {<<"prefix", s.prefix>>} ELSE {}),
                           !.threads[t].todo = names_in(NameOrder, s.loggerDict),
                           !.threads[t].pc = "update_logger"]
          [] my.pc = "update_logger" ->
                 IF my.todo = <<>> THEN leave(s, t)
                 ELSE [s EXCEPT !.logLevel[Head(my.todo)] = s.level,
                                !.threads[t].logger = Head(my.todo),
                                !.threads[t].todo = Tail(my.todo),
                                !.threads[t].index = 1,
                                !.threads[t].pc = "update_handler"]
          [] my.pc = "update_handler" ->
                 IF my.index > Len(s.logHandlers[my.logger])
                 THEN goto(s, t, "update_logger")
                 ELSE [s EXCEPT !.sinkFmt[s.logHandlers[my.logger][my.index]] = my.formatter,
                                !.threads[t].handler = s.logHandlers[my.logger][my.index],
                                !.threads[t].pc = "update_handler_level"]
          [] my.pc = "update_handler_level" ->
                 [s EXCEPT !.sinkLevel[my.handler] = s.level,
                           !.threads[t].index = @ + 1,
                           !.threads[t].pc = "update_handler"]

UpdatePcs ==
    {"update_format", "update_date", "update_formatter", "update_logger",
     "update_handler", "update_handler_level"}

\* one statement of LoggerConfig.set_prefix run by thread t (config.py:176-180)
set_prefix_step(s, t) ==
    LET my == s.threads[t]
    IN  CASE my.pc = "set_prefix_check" ->
                 IF ~s.configured
                 THEN [s EXCEPT !.threads[t].args =
                                    DefaultArgs(my.prefix, DEFAULT_FORMAT_WITH_PREFIX),
                                !.threads[t].return = "set_prefix_assign",
                                !.threads[t].pc = "configure_check"]
                 ELSE goto(s, t, "set_prefix_assign")
          [] my.pc = "set_prefix_assign" ->
                 [s EXCEPT !.prefix = my.prefix, !.threads[t].pc = "update_format"]

SetPrefixPcs == {"set_prefix_check", "set_prefix_assign"}

\* one statement of LoggerConfig.add_handler run by thread t (config.py:200-210)
add_handler_step(s, t) ==
    LET my == s.threads[t]
    IN  CASE my.pc = "add_handler_check" ->
                 IF ~s.configured THEN [s EXCEPT !.threads[t] = Done(@, TRUE)]
                 ELSE goto(s, t, "add_handler_append")
          [] my.pc = "add_handler_append" ->
                 [s EXCEPT !.handlers = Append(@, my.handler),
                           !.threads[t].pc = "add_handler_root"]
          [] my.pc = "add_handler_root" ->
                 [s EXCEPT !.rootHandlers = addHandler(@, my.handler),
                           !.threads[t].todo = names_in(NameOrder, s.loggerDict),
                           !.threads[t].pc = "add_handler_logger"]
          [] my.pc = "add_handler_logger" ->
                 IF my.todo = <<>> THEN leave(s, t)
                 ELSE [s EXCEPT !.logHandlers[Head(my.todo)] = addHandler(@, my.handler),
                                !.threads[t].todo = Tail(my.todo)]

AddHandlerPcs ==
    {"add_handler_check", "add_handler_append", "add_handler_root", "add_handler_logger"}

\* one statement of Logger.get_logger(name, level) run by thread t
\* (core.py:336-348); _determine_effective_level, _has_handler,
\* _add_handlers_to_logger and _apply_formatter_to_logger are one step each
get_logger_step(s, t) ==
    LET my == s.threads[t]
    IN  CASE my.pc = "get_logger_lookup" ->
                 [s EXCEPT !.loggerDict = @ \cup {my.name},
                           !.threads[t].pc = "get_logger_level"]
          [] my.pc = "get_logger_level" ->
                 [s EXCEPT !.threads[t].effective_level =
                               determine_effective_level(s, my.level),
                           !.threads[t].pc = "get_logger_set_level"]
          [] my.pc = "get_logger_set_level" ->
                 [s EXCEPT !.logLevel[my.name] = my.effective_level,
                           !.threads[t].pc = "get_logger_propagate"]
          [] my.pc = "get_logger_propagate" ->
                 [s EXCEPT !.propagate[my.name] = FALSE,
                           !.threads[t].pc = "get_logger_has_handler"]
          [] my.pc = "get_logger_has_handler" ->
                 [s EXCEPT !.threads[t].has_handler = has_handler(s, my.name),
                           !.threads[t].pc = "get_logger_add_handlers"]
          [] my.pc = "get_logger_add_handlers" ->
                 goto(IF ~my.has_handler
                      THEN add_handlers_to_logger(s, my.name, my.effective_level)
                      ELSE s,
                      t, "get_logger_apply")
          [] my.pc = "get_logger_apply" ->
                 leave(apply_formatter_to_logger(s, my.name, my.effective_level), t)

GetLoggerPcs ==
    {"get_logger_lookup", "get_logger_level", "get_logger_set_level",
     "get_logger_propagate", "get_logger_has_handler", "get_logger_add_handlers",
     "get_logger_apply"}

(******************************* actions ***********************************)
\* the arguments of a configure call: the fields, and one handler path
\* (handlers is looked at only when no default_handler is passed, config.py:120-122)
Args(ps, fs, ds, ls, paths, forces) ==
    {[prefix |-> p, format_string |-> f, date_format |-> d, level |-> l,
      hasHandlers |-> hp[1], handlers |-> hp[2], default_handler |-> hp[3], force |-> fo] :
        p \in ps, f \in fs, d \in ds, l \in ls, hp \in paths, fo \in forces}

\* handler paths: <<handlers given, handlers, default_handler>>
PathNone == <<FALSE, <<>>, NoSink>>
PathList(hs) == <<TRUE, hs, NoSink>>
PathDefault(h) == <<FALSE, <<>>, h>>

\* no record was logged
NoRecord ==
    [name |-> "", msg |-> "", levelno |-> NOTSET, filename |-> "", lineno |-> "",
     extra |-> <<>>]

\* what is remembered of the last call: the operation, whether it raised,
\* whether the configuration was configured when it was made, its arguments
Call(op) ==
    [op |-> op, raised |-> FALSE, was_configured |-> FALSE, name |-> "", cls |-> "",
     record |-> NoRecord, sink |-> NoSink, lvl |-> NoLevel, args |-> DefaultArgs("", "")]

Commit(s, call) ==
    \E c \in {Collect(s)} :
        /\ configured' = c.configured
        /\ prefix' = c.prefix
        /\ format_string' = c.format_string
        /\ date_format' = c.date_format
        /\ level' = c.level
        /\ handlers' = c.handlers
        /\ default_handler' = c.default_handler
        /\ rootLevel' = c.rootLevel
        /\ rootHandlers' = c.rootHandlers
        /\ loggerDict' = c.loggerDict
        /\ logLevel' = c.logLevel
        /\ propagate' = c.propagate
        /\ logHandlers' = c.logHandlers
        /\ sinkFmt' = c.sinkFmt
        /\ sinkLevel' = c.sinkLevel
        /\ active_format' = c.active_format
        /\ active_date_format' = c.active_date_format
        /\ loggers' = c.loggers
        /\ log_level' = c.log_level
        /\ out' = c.out
        /\ threads' = c.threads
        /\ held' = c.held
        /\ last' = [call EXCEPT !.raised = c.raised, !.was_configured = configured]

Init ==
    /\ configured = FALSE
    /\ prefix = ""
    /\ format_string = DEFAULT_FORMAT_WITH_PREFIX
    /\ date_format = DEFAULT_DATE_FORMAT
    /\ level = INFO
    /\ handlers = <<>>
    /\ default_handler = NoSink
    /\ rootLevel = WARNING
    /\ rootHandlers = <<>>
    /\ loggerDict = {}
    /\ logLevel = [n \in LoggerNames |-> NOTSET]
    /\ propagate = [n \in LoggerNames |-> TRUE]
    /\ logHandlers = [n \in LoggerNames |-> <<>>]
    /\ sinkFmt = [h \in Sinks |-> NoFormatter]
    /\ sinkLevel = [h \in Sinks |-> NOTSET]
    /\ active_format = DEFAULT_FORMAT
    /\ active_date_format = DEFAULT_DATE_FORMAT
    /\ loggers = [c \in Classes |-> NoLogger]
    /\ log_level = [c \in Classes |-> NoLevel]
    /\ out = <<>>
    /\ threads = [t \in Threads |-> Idle]
    /\ held = {}
    /\ last = Call("init")

\* LoggerConfig.configure(...) with arguments from A; of a call that returns
\* at once only the force flag is remembered
Configure(A) ==
    \E a \in A, s \in {State} :
        /\ (~(configured /\ ~a.force) /\ a.default_handler = NoSink /\ ~a.hasHandlers)
               => CanAllocate(s)
        /\ Commit(configure(s, a),
                  [Call("configure") EXCEPT
                      !.args = IF configured /\ ~a.force THEN DefaultArgs("", "") ELSE a])

\* LoggerConfig.set_prefix(p)
SetPrefix(ps) ==
    \E p \in ps, s \in {State} :
        /\ ~configured => CanAllocate(s)
        /\ Commit(set_prefix(s, p), [Call("set_prefix") EXCEPT !.args.prefix = p])

\* LoggerConfig.add_handler(h)
AddHandler ==
    \E h \in UserSinks, s \in {State} :
        /\ Len(handlers) < MaxHandlers
        /\ Commit(add_handler(s, h), [Call("add_handler") EXCEPT !.sink = h])

\* LoggerConfig.remove_handler(h)
RemoveHandler ==
    \E h \in UserSinks, s \in {State} :
        Commit(remove_handler(s, h), [Call("remove_handler") EXCEPT !.sink = h])

\* LoggerConfig.set_default_handler(h)
SetDefaultHandler ==
    \E h \in UserSinks, s \in {State} :
        Commit(set_default_handler(s, h), [Call("set_default_handler") EXCEPT !.sink = h])

\* Logger.get_logger(name, level) with level from ls
GetLogger(ls) ==
    \E n \in Names, lvl \in ls, s \in {State} :
        /\ CanAllocate(s)
        /\ Commit(get_logger(s, n, lvl),
                  [Call("get_logger") EXCEPT !.name = n, !.lvl = lvl])

\* the application sets the root threshold itself: logging.getLogger().setLevel(l)
RootSetLevel(ls) ==
    \E l \in ls, s \in {State} :
        Commit([s EXCEPT !.rootLevel = l], [Call("root.setLevel") EXCEPT !.lvl = l])

\* LoggerConfig.add_handler(h) with h from hs
AddHandlerOf(hs) ==
    \E h \in hs, s \in {State} :
        /\ Len(handlers) < MaxHandlers
        /\ Commit(add_handler(s, h), [Call("add_handler") EXCEPT !.sink = h])

\* LoggerConfig.remove_handler(h) with h from hs
RemoveHandlerOf(hs) ==
    \E h \in hs, s \in {State} :
        Commit(remove_handler(s, h), [Call("remove_handler") EXCEPT !.sink = h])

\* LoggerConfig.set_default_handler(h) with h from hs
SetDefaultHandlerOf(hs) ==
    \E h \in hs, s \in {State} :
        Commit(set_default_handler(s, h), [Call("set_default_handler") EXCEPT !.sink = h])

\* Logger.get_logger(name, level) with name from ns and level from ls
GetLoggerOf(ns, ls) ==
    \E n \in ns, lvl \in ls, s \in {State} :
        /\ CanAllocate(s)
        /\ Commit(get_logger(s, n, lvl),
                  [Call("get_logger") EXCEPT !.name = n, !.lvl = lvl])

\* LoggingMixin.set_log_level(v) on a class of cs
SetLogLevel(cs, ls) ==
    \E c \in cs, v \in ls, s \in {State} :
        Commit(set_log_level(s, c, v),
               [Call("set_log_level") EXCEPT !.cls = c, !.lvl = v])

\* cls.logger(level) or instance.log (level omitted) of a class; the logger
\* handed back is the one the cache holds for the class (mixin.py:115)
ClassLogger(cs, ls) ==
    \E c \in cs, lvl \in ls, s \in {State} :
        /\ loggers[c] = NoLogger => CanAllocate(s)
        /\ \E t \in {class_get_logger(s, c, lvl)} :
               Commit(t, [Call("logger") EXCEPT !.cls = c, !.lvl = lvl,
                                                !.name = t.loggers[c]])

(************** configuration fields, levels and propagation ***************)
\* the format string and the date format are passed together: both the
\* defaults, or both custom
FieldArgs ==
    {a \in Args(Prefixes, FormatStrings, DateFormats, {DEBUG, INFO},
                {PathNone, PathList(<<1>>)}, BOOLEAN) :
        (a.format_string = CUSTOM_FORMAT) <=> (a.date_format = CUSTOM_DATE_FORMAT)}

ConfigureFields == Configure(FieldArgs)
SetPrefixAny == SetPrefix(Prefixes)
GetLoggerAt == GetLogger({NoLevel, WARNING})
RootReset == RootSetLevel({NOTSET, WARNING})

Next ==
    \/ ConfigureFields
    \/ SetPrefixAny
    \/ GetLoggerAt
    \/ RootReset

Spec == Init /\ [][Next]_vars

(*************************** handler management ****************************)
HandlerArgs ==
    Args({"A"}, {DEFAULT_FORMAT_WITH_PREFIX}, {DEFAULT_DATE_FORMAT}, {INFO},
         {PathNone, PathList(<<>>), PathList(<<1>>), PathList(<<2, 1>>),
          PathDefault(1), PathDefault(2)}, BOOLEAN)

ConfigureHandlers == Configure(HandlerArgs)
GetLoggerPlain == GetLogger({NoLevel})

NextHandlers ==
    \/ ConfigureHandlers
    \/ AddHandler
    \/ RemoveHandler
    \/ SetDefaultHandler
    \/ GetLoggerPlain

SpecHandlers == Init /\ [][NextHandlers]_vars

(***************************** default handler *****************************)
\* the application asks the host for a logger itself: logging.getLogger(name)
\* registers the name, with no handler, level NOTSET and propagate True
LoggingGetLogger ==
    \E n \in Names, s \in {State} :
        Commit([s EXCEPT !.loggerDict = @ \cup {n}],
               [Call("logging.getLogger") EXCEPT !.name = n])

DefaultArgs3 ==
    Args({"A"}, {DEFAULT_FORMAT_WITH_PREFIX}, {DEFAULT_DATE_FORMAT}, {INFO},
         {PathNone, PathList(<<1>>), PathDefault(1)}, BOOLEAN)

ConfigureDefault == Configure(DefaultArgs3)

NextDefault ==
    \/ ConfigureDefault
    \/ SetDefaultHandler
    \/ GetLoggerPlain
    \/ LoggingGetLogger

SpecDefault == Init /\ [][NextDefault]_vars

(******************************* lifecycle *********************************)
\* every operation of the library, on one prefix per operation, one format,
\* one level per operation, one logger name and one class
LifecycleArgs ==
    Args({"A"}, {DEFAULT_FORMAT_WITH_PREFIX}, {DEFAULT_DATE_FORMAT}, {INFO},
         {PathNone, PathList(<<1>>)}, BOOLEAN)

ConfigureLifecycle == Configure(LifecycleArgs)
SetPrefixB == SetPrefix({"B"})
AddHandlerOne == AddHandlerOf({1})
RemoveHandlerOne == RemoveHandlerOf({1})
SetDefaultHandlerTwo == SetDefaultHandlerOf({2})
GetLoggerA == GetLoggerOf({"a"}, {NoLevel})
SetLogLevelDebug == SetLogLevel({"UserService"}, {DEBUG})
ClassLoggerPlain == ClassLogger({"UserService"}, {NoLevel})

NextLifecycle ==
    \/ ConfigureLifecycle
    \/ SetPrefixB
    \/ AddHandlerOne
    \/ RemoveHandlerOne
    \/ SetDefaultHandlerTwo
    \/ GetLoggerA
    \/ SetLogLevelDebug
    \/ ClassLoggerPlain

SpecLifecycle == Init /\ [][NextLifecycle]_vars

(***************************** rendering ***********************************)
\* the extra={...} dicts the application logs with
ExtraInputs ==
    {<<>>,
     << <<"k", StrValue("v")>> >>,
     << <<"k", StrValue("v")>>, <<"n", IntValue("42")>> >>,
     << <<"n", IntValue("42")>>, <<"k", StrValue("v")>> >>,
     << <<"o", ObjValue("obj")>> >>,
     << <<"c", CircularValue>> >>,
     << <<"d", DeepValue>> >>}

\* logger.info(msg, extra=e) / logger.log(levelno, msg, extra=e) on a logger
\* the registry knows
Log(ns, ls) ==
    \E n \in ns \cap loggerDict, l \in ls, e \in ExtraInputs, s \in {State} :
        \E r \in {[name |-> n, msg |-> "msg", levelno |-> l, filename |-> "app.py",
                   lineno |-> "7", extra |-> e]} :
            Commit(log(s, n, r), [Call("log") EXCEPT !.name = n, !.record = r])

RenderArgs ==
    Args({"", "A"}, {OPTIONAL_FORMAT, CUSTOM_FORMAT}, {DEFAULT_DATE_FORMAT}, {INFO},
         {PathNone, PathList(<<1>>)}, BOOLEAN)

ConfigureRender == Configure(RenderArgs)
LogInfo == Log({"a"}, {INFO})

NextRender ==
    \/ ConfigureRender
    \/ SetPrefixAny
    \/ GetLoggerA
    \/ LogInfo

SpecRender == Init /\ [][NextRender]_vars

(************************** per-class loggers ******************************)
\* the log_level attribute a class body may declare (07_inheritance.py:20,40)
ClassAttributes ==
    {f \in [Classes -> {NoLevel, WARNING}] : f["UserService/2"] = NoLevel}
\* the base class and its subclass
Hierarchy == {"BaseService", "UserService"}

\* the state after the classes are defined: as Init, with the log_level
\* attribute each class declares
InitMixin ==
    /\ configured = FALSE
    /\ prefix = ""
    /\ format_string = DEFAULT_FORMAT_WITH_PREFIX
    /\ date_format = DEFAULT_DATE_FORMAT
    /\ level = INFO
    /\ handlers = <<>>
    /\ default_handler = NoSink
    /\ rootLevel = WARNING
    /\ rootHandlers = <<>>
    /\ loggerDict = {}
    /\ logLevel = [n \in LoggerNames |-> NOTSET]
    /\ propagate = [n \in LoggerNames |-> TRUE]
    /\ logHandlers = [n \in LoggerNames |-> <<>>]
    /\ sinkFmt = [h \in Sinks |-> NoFormatter]
    /\ sinkLevel = [h \in Sinks |-> NOTSET]
    /\ active_format = DEFAULT_FORMAT
    /\ active_date_format = DEFAULT_DATE_FORMAT
    /\ loggers = [c \in Classes |-> NoLogger]
    /\ log_level \in ClassAttributes
    /\ out = <<>>
    /\ threads = [t \in Threads |-> Idle]
    /\ held = {}
    /\ last = Call("init")

MixinArgs ==
    Args({""}, {DEFAULT_FORMAT_WITH_PREFIX}, {DEFAULT_DATE_FORMAT}, {DEBUG},
         {PathNone, PathList(<<1>>)}, {TRUE})

ConfigureMixin == Configure(MixinArgs)
SetLogLevelAny == SetLogLevel(Hierarchy, {DEBUG, WARNING})
ClassLoggerAny == ClassLogger(Hierarchy, {NoLevel, NOTSET, INFO})

NextMixin ==
    \/ ConfigureMixin
    \/ SetLogLevelAny
    \/ ClassLoggerAny

SpecMixin == InitMixin /\ [][NextMixin]_vars

\* every class, the two that share a name included
SetLogLevelEvery == SetLogLevel(Classes, {DEBUG})
ClassLoggerEvery == ClassLogger(Classes, {NoLevel, INFO})

NextClasses ==
    \/ ConfigureMixin
    \/ SetLogLevelEvery
    \/ ClassLoggerEvery

SpecClasses == Init /\ [][NextClasses]_vars

(*************************** the legacy calls ******************************)
\* the format string of test_set_log_format
LEGACY_FORMAT == "%(levelname)s: %(message)s"

\* Logger.set_log_format(f, d); every sink is a logging.StreamHandler, as the
\* handlers of the tests and the examples are
SetLogFormat(fs, ds) ==
    \E f \in fs, d \in ds, s \in {State} :
        Commit(set_log_format(s, f, d),
               [Call("set_log_format") EXCEPT !.args.format_string = f,
                                              !.args.date_format = d])

\* Logger(level=lvl, format=f)
LoggerInit(ls, fs) ==
    \E lvl \in ls, f \in fs, s \in {State} :
        /\ CanAllocate(s)
        /\ Commit(logger_init(s, lvl, f),
                  [Call("logger_init") EXCEPT !.lvl = lvl, !.args.format_string = f])

LegacyArgs ==
    Args({"", "A"}, {DEFAULT_FORMAT_WITH_PREFIX, CUSTOM_FORMAT}, {DEFAULT_DATE_FORMAT},
         {INFO}, {PathNone, PathList(<<1>>)}, BOOLEAN)

ConfigureLegacy == Configure(LegacyArgs)
GetLoggerNamed == GetLoggerOf(Names, {NoLevel})
SetLogFormatAny == SetLogFormat({"", LEGACY_FORMAT}, {"", CUSTOM_DATE_FORMAT})
LoggerInitAny == LoggerInit({INFO}, {"", LEGACY_FORMAT})

NextLegacy ==
    \/ ConfigureLegacy
    \/ GetLoggerNamed
    \/ SetLogFormatAny
    \/ LoggerInitAny

SpecLegacy == Init /\ [][NextLegacy]_vars

(************************** concurrent calls *******************************)
\* no thread has begun a call
AllIdle == \A t \in Threads : threads[t].pc = "idle"

\* the application configures and takes its logger before it starts threads
FirstArgs ==
    Args({"A"}, {DEFAULT_FORMAT_WITH_PREFIX}, {DEFAULT_DATE_FORMAT}, {INFO},
         {PathList(<<1>>)}, {FALSE})

ConfigureFirst == AllIdle /\ Configure(FirstArgs)
GetLoggerFirst == AllIdle /\ configured /\ GetLoggerA

\* the configure calls the threads make
ThreadArgs ==
    Args({""}, {CUSTOM_FORMAT}, {CUSTOM_DATE_FORMAT}, {DEBUG}, {PathList(<<1>>)}, {TRUE})
        \cup Args({""}, {OPTIONAL_FORMAT}, {DEFAULT_DATE_FORMAT}, {WARNING},
                  {PathList(<<1>>)}, {TRUE})

\* the thread takes the step, and the field values the configuration held
\* before and after it are remembered
Step(s, call) ==
    Commit([s EXCEPT !.held = held \cup {Snapshot(State), Snapshot(s)}], call)

\* a thread calls LoggerConfig.configure(...) with arguments from A
BeginConfigureOf(A) ==
    \E t \in Threads, a \in A, s \in {State} :
        /\ threads[t].pc = "idle"
        /\ Step([s EXCEPT !.threads[t] =
                    [Idle EXCEPT !.pc = "configure_check", !.op = "configure", !.args = a]],
                Call("begin"))

BeginConfigure == BeginConfigureOf(ThreadArgs)

\* a thread calls LoggerConfig.set_prefix(p) with a prefix of ps
BeginSetPrefixOf(ps) ==
    \E t \in Threads, p \in ps, s \in {State} :
        /\ threads[t].pc = "idle"
        /\ Step([s EXCEPT !.threads[t] =
                    [Idle EXCEPT !.pc = "set_prefix_check", !.op = "set_prefix",
                                 !.prefix = p]],
                Call("begin"))

BeginSetPrefix == BeginSetPrefixOf({"B"})

\* a thread calls LoggerConfig.add_handler(h) with the user sink 2
BeginAddHandler ==
    \E t \in Threads, s \in {State} :
        /\ threads[t].pc = "idle"
        /\ Step([s EXCEPT !.threads[t] =
                    [Idle EXCEPT !.pc = "add_handler_check", !.op = "add_handler",
                                 !.handler = 2]],
                Call("begin"))

ConfigureStep ==
    \E t \in Threads, s \in {State} :
        /\ threads[t].pc \in ConfigurePcs
        /\ (threads[t].pc = "configure_handlers" /\ threads[t].args.default_handler = NoSink
                /\ ~threads[t].args.hasHandlers) => CanAllocate(s)
        /\ Step(configure_step(s, t), Call("step"))

UpdateStep ==
    \E t \in Threads, s \in {State} :
        /\ threads[t].pc \in UpdatePcs
        /\ Step(update_step(s, t), Call("step"))

SetPrefixStep ==
    \E t \in Threads, s \in {State} :
        /\ threads[t].pc \in SetPrefixPcs
        /\ Step(set_prefix_step(s, t), Call("step"))

AddHandlerStep ==
    \E t \in Threads, s \in {State} :
        /\ threads[t].pc \in AddHandlerPcs
        /\ Step(add_handler_step(s, t), Call("step"))

NextConcurrent ==
    \/ ConfigureFirst
    \/ GetLoggerFirst
    \/ BeginConfigure
    \/ BeginSetPrefix
    \/ BeginAddHandler
    \/ ConfigureStep
    \/ UpdateStep
    \/ SetPrefixStep
    \/ AddHandlerStep

SpecConcurrent == Init /\ [][NextConcurrent]_vars

\* two first calls of configure, without force, each with its own arguments
FirstCallArgs ==
    Args({"A"}, {DEFAULT_FORMAT_WITH_PREFIX}, {DEFAULT_DATE_FORMAT}, {DEBUG},
         {PathList(<<1>>)}, {FALSE})
        \cup Args({"B"}, {CUSTOM_FORMAT}, {CUSTOM_DATE_FORMAT}, {WARNING},
                  {PathList(<<2>>)}, {FALSE})

BeginFirstCall == BeginConfigureOf(FirstCallArgs)

NextFirstCall ==
    \/ BeginFirstCall
    \/ ConfigureStep
    \/ UpdateStep

SpecFirstCall == Init /\ [][NextFirstCall]_vars

\* threads that call set_prefix, each with its own prefix
BeginSetPrefixEither == BeginSetPrefixOf({"A", "B"})

NextSetPrefix ==
    \/ ConfigureFirst
    \/ GetLoggerFirst
    \/ BeginSetPrefixEither
    \/ SetPrefixStep
    \/ ConfigureStep
    \/ UpdateStep

SpecSetPrefix == Init /\ [][NextSetPrefix]_vars

\* threads that call Logger.get_logger("a") at the same time, before or after
\* the application has configured
BeginGetLogger ==
    \E t \in Threads, s \in {State} :
        /\ threads[t].pc = "idle"
        /\ Step([s EXCEPT !.threads[t] =
                    [Idle EXCEPT !.pc = "get_logger_lookup", !.op = "get_logger",
                                 !.name = "a"]],
                Call("begin"))

GetLoggerStep ==
    \E t \in Threads, s \in {State} :
        /\ threads[t].pc \in GetLoggerPcs
        /\ (threads[t].pc = "get_logger_add_handlers" /\ ~threads[t].has_handler)
               => CanAllocate(s)
        /\ Step(get_logger_step(s, t), Call("step"))

ConfigureBefore == AllIdle /\ ConfigureMixin

NextGetLogger ==
    \/ ConfigureBefore
    \/ BeginGetLogger
    \/ GetLoggerStep

SpecGetLogger == Init /\ [][NextGetLogger]_vars

(******************************** claims ***********************************)
Attached(h) ==
    \/ Contains(rootHandlers, h)
    \/ \E n \in LoggerNames : Contains(logHandlers[n], h)

\* the sink's formatter holds this prefix and this format string
Carries(h, p, f) ==
    /\ sinkFmt[h].fmt = f
    /\ sinkFmt[h].template_vars = (IF p # "" THEN {<<"prefix", p>>} ELSE {})

\* C1: a configure call without force on a configured state changes nothing:
\* not a configuration field, not the root logger, not a named logger's level
\* or sinks, not a sink's formatter or level
C1_ConfigureNoop ==
    [][(last'.op = "configure" /\ configured /\ ~last'.args.force)
           => UNCHANGED <<cfgVars, logVars, sinkVars>>]_vars

C1_Witness ==
    /\ last.op = "configure" /\ last.was_configured /\ ~last.args.force
    /\ prefix = "A"
    /\ \E n \in loggerDict : logHandlers[n] # <<>>

\* C2 as stated: after any configure call with force=true the prefix, the
\* format string, the date format and the level are the values passed
C2_ForceReplacesAll ==
    (last.op = "configure" /\ last.args.force)
        => /\ prefix = last.args.prefix
           /\ format_string = last.args.format_string
           /\ date_format = last.args.date_format
           /\ level = last.args.level

\* C2 amended: after a configure call with force=true the format string, the
\* date format and the level are the values passed; the prefix is the one
\* passed when that is non-empty or nothing was configured before, and is
\* kept when an empty prefix is passed to a configured state
C2_ForceReplaces ==
    [][(last'.op = "configure" /\ last'.args.force)
           => /\ format_string' = last'.args.format_string
              /\ date_format' = last'.args.date_format
              /\ level' = last'.args.level
              /\ prefix' = IF last'.args.prefix # "" \/ ~configured
                           THEN last'.args.prefix ELSE prefix]_vars

C2_Witness ==
    /\ last.op = "configure" /\ last.args.force /\ last.was_configured
    /\ last.args.prefix = "B" /\ prefix = "B"
    /\ format_string = CUSTOM_FORMAT /\ level = DEBUG

\* C3: the level of the logger get_logger returns is the explicit level if
\* one is given, else the configured level if configured, else the root
\* threshold if it is set (not NOTSET), else INFO
C3_LevelPrecedence ==
    last.op = "get_logger"
        => logLevel[last.name] =
               IF last.lvl # NoLevel THEN last.lvl
               ELSE IF configured THEN level
               ELSE IF rootLevel # NOTSET THEN rootLevel
               ELSE INFO

\* no explicit level, a configured level and a different root threshold
C3_Witness ==
    /\ last.op = "get_logger" /\ last.lvl = NoLevel
    /\ configured /\ level = DEBUG /\ rootLevel = WARNING
    /\ logLevel[last.name] = DEBUG

\* C4: when a configure call that takes effect or a set_prefix call completes,
\* every known logger still has the sinks it had and each of them carries the
\* current prefix and format string
C4_RetroactivePropagation ==
    [][((last'.op = "configure" /\ (~configured \/ last'.args.force))
            \/ last'.op = "set_prefix")
           => \A n \in loggerDict :
                  /\ logHandlers'[n] = logHandlers[n]
                  /\ \A h \in Range(logHandlers'[n]) : Carries(h, prefix, format_string)']_vars

\* the first configure call finds a logger that was obtained before it
C4_Witness ==
    /\ last.op = "configure" /\ ~last.was_configured
    /\ prefix = "A" /\ format_string = CUSTOM_FORMAT
    /\ \E n \in loggerDict : \E h \in Range(logHandlers[n]) : Carries(h, "A", CUSTOM_FORMAT)

\* C5: after add_handler(h) on a configured state h is attached exactly once
\* to root and to every known named logger, however often it was added, and
\* every sink attached before is still attached
C5_AddHandlerOnce ==
    [][(last'.op = "add_handler" /\ configured)
           => /\ Count(rootHandlers', last'.sink) = 1
              /\ Range(rootHandlers) \subseteq Range(rootHandlers')
              /\ \A n \in loggerDict :
                     /\ Count(logHandlers'[n], last'.sink) = 1
                     /\ Range(logHandlers[n]) \subseteq Range(logHandlers'[n])]_vars

\* the same sink added twice, another sink added too, a named logger known
C5_Witness ==
    /\ last.op = "add_handler" /\ last.was_configured
    /\ Count(handlers, last.sink) = 2
    /\ \E n \in loggerDict : Count(logHandlers[n], last.sink) = 1
                               /\ Range(logHandlers[n]) \cap UserSinks = UserSinks

\* C6: after remove_handler(h) on a configured state h is neither in the
\* handler list nor attached to root or to a named logger
C6_RemoveHandlerEverywhere ==
    (last.op = "remove_handler" /\ last.was_configured)
        => ~Contains(handlers, last.sink) /\ ~Attached(last.sink)

\* C7: add_handler and set_default_handler on an unconfigured state raise and
\* change nothing
C7_NotConfiguredError ==
    [][(last'.op \in {"add_handler", "set_default_handler"} /\ ~configured)
           => last'.raised /\ UNCHANGED <<cfgVars, logVars, sinkVars>>]_vars

C7_Witness ==
    /\ last.op \in {"add_handler", "set_default_handler"} /\ last.raised
    /\ ~configured
    /\ \E n \in loggerDict : logHandlers[n] # <<>>

\* C8: remove_handler never raises, and on an unconfigured state, or for a
\* sink that is neither in the handler list nor attached to a logger, it
\* changes nothing
C8_RemoveHandlerSilent ==
    [][last'.op = "remove_handler"
           => /\ ~last'.raised
              /\ (~configured \/ (~Contains(handlers, last'.sink) /\ ~Attached(last'.sink)))
                     => UNCHANGED <<cfgVars, logVars, sinkVars>>]_vars

\* the call made before any configure, with a logger already known
C8_Witness ==
    /\ last.op = "remove_handler" /\ ~last.raised
    /\ ~last.was_configured /\ ~configured
    /\ \E n \in loggerDict : logHandlers[n] # <<>>

\* C9: set_prefix(p) on an unconfigured state leaves it configured with
\* prefix p, the default format with the {prefix} token, level INFO, an empty
\* handler list and one stdout sink the library built as default handler,
\* at level INFO and attached to root
C9_SetPrefixAutoConfigures ==
    (last.op = "set_prefix" /\ ~last.was_configured)
        => /\ configured
           /\ prefix = last.args.prefix
           /\ format_string = DEFAULT_FORMAT_WITH_PREFIX
           /\ date_format = DEFAULT_DATE_FORMAT
           /\ level = INFO
           /\ handlers = <<>>
           /\ default_handler \in SynthSinks
           /\ sinkLevel[default_handler] = INFO
           /\ rootHandlers = <<default_handler>>
           /\ rootLevel = INFO

C9_Witness ==
    /\ last.op = "set_prefix" /\ ~last.was_configured
    /\ configured /\ prefix = "A"
    /\ loggerDict = Names

\* C10: set_prefix(p) on a configured state makes p the prefix and changes
\* neither the format string, the date format, the level, the handler list,
\* the default handler nor the sinks attached to root or to a named logger
C10_SetPrefixFrame ==
    [][(last'.op = "set_prefix" /\ configured)
           => /\ prefix' = last'.args.prefix
              /\ UNCHANGED <<configured, format_string, date_format, level,
                             handlers, default_handler, rootHandlers, logHandlers>>]_vars

\* a second set_prefix in a row, on a state with custom fields and sinks
C10_Witness ==
    /\ last.op = "set_prefix" /\ last.was_configured
    /\ prefix = "B" /\ format_string = CUSTOM_FORMAT /\ level = DEBUG
    /\ handlers # <<>>
    /\ \E n \in loggerDict : Len(logHandlers[n]) = 2

\* C11: after a configure call that takes effect the configuration holds one
\* handler path: the default handler passed and an empty handler list; or the
\* handler list passed and no default handler; or a stdout sink the library
\* built, at the level passed, and an empty handler list
C11_OneHandlerPath ==
    (last.op = "configure" /\ (~last.was_configured \/ last.args.force))
        => IF last.args.default_handler # NoSink
           THEN default_handler = last.args.default_handler /\ handlers = <<>>
           ELSE IF last.args.hasHandlers
           THEN handlers = last.args.handlers /\ default_handler = NoSink
           ELSE /\ default_handler \in SynthSinks
                /\ sinkLevel[default_handler] = last.args.level
                /\ handlers = <<>>

\* C12: in a configured state every logger get_logger has returned has every
\* sink of the configuration's handler list attached
C12_HandlerListEverywhere ==
    configured => \A n \in loggerDict : Range(handlers) \subseteq Range(logHandlers[n])

\* C13: while the configuration holds a default handler the application
\* supplied, a logger get_logger returns for a new name has that handler among
\* its sinks and no stdout sink built by the library
C13_DefaultHandlerReplacesStdout ==
    [][(last'.op = "get_logger" /\ last'.name \notin loggerDict
            /\ configured /\ default_handler \in UserSinks)
           => /\ Contains(logHandlers'[last'.name], default_handler)
              /\ Range(logHandlers'[last'.name]) \cap SynthSinks = {}]_vars

\* C14: after set_default_handler(h) on a configured state h is the default
\* handler, h has the configured level and a formatter built from the current
\* prefix, format string and date format, h is attached to root, and the
\* default handler it replaced is attached neither to root nor to a named logger
C14_SetDefaultHandler ==
    [][(last'.op = "set_default_handler" /\ configured)
           => /\ default_handler' = last'.sink
              /\ sinkLevel'[last'.sink] = level'
              /\ sinkFmt'[last'.sink].kind = "extra"
              /\ sinkFmt'[last'.sink].datefmt = date_format'
              /\ sinkFmt'[last'.sink].fmt = format_string'
              /\ sinkFmt'[last'.sink].template_vars =
                     (IF prefix' # "" THEN {<<"prefix", prefix'>>} ELSE {})
              /\ Contains(rootHandlers', last'.sink)
              /\ (default_handler # NoSink /\ default_handler # last'.sink)
                     => /\ ~Contains(rootHandlers', default_handler)
                        /\ \A n \in LoggerNames : ~Contains(logHandlers'[n], default_handler)]_vars

\* the handler replaced was a sink of the application; the new one is on root
C14_Witness ==
    /\ last.op = "set_default_handler" /\ last.was_configured /\ ~last.raised
    /\ last.sink = 2 /\ default_handler = 2
    /\ rootHandlers = <<2>>
    /\ \E n \in loggerDict : logHandlers[n] = <<2>>
    /\ sinkFmt[1].kind = "extra"

C16_PropagateFalse ==
    [][/\ last'.op = "get_logger" => ~propagate'[last'.name]
       /\ (last'.op = "logger" /\ loggers[last'.cls] = NoLogger)
              => ~propagate'[logger_name(last'.cls)]
       /\ \A n \in loggerDict : ~propagate[n] => ~propagate'[n]]_vars

\* a logger and a class logger, then reconfiguration, a new prefix, handler
\* changes and a class level
C16_Witness ==
    /\ last.op = "set_log_level"
    /\ configured /\ prefix = "B" /\ default_handler = 2
    /\ loggerDict = {"a", logger_name("UserService")}
    /\ \A n \in loggerDict : ~propagate[n]
    /\ logLevel[logger_name("UserService")] = DEBUG

\* C18: the configured flag never goes back to false; it becomes true at a
\* configure or a set_prefix call and is true after each of them
C18_ConfiguredMonotonic ==
    [][/\ configured => configured'
       /\ (~configured /\ configured') => last'.op \in {"configure", "set_prefix"}
       /\ last'.op \in {"configure", "set_prefix"} => configured']_vars

\* a forced reconfiguration of a configured state
C18_Witness ==
    /\ last.op = "configure" /\ last.was_configured /\ last.args.force
    /\ configured
    /\ loggerDict # {}

\* C17: a named logger owns at most one stdout sink built by the library;
\* get_logger builds exactly one for a logger that has no sink and attaches
\* nothing to a logger that has one
C17_OneSynthesizedSink ==
    [][/\ \A n \in LoggerNames :
              Cardinality(Range(logHandlers'[n]) \cap SynthSinks) <= 1
       /\ last'.op = "get_logger"
              => IF logHandlers[last'.name] = <<>>
                 THEN Cardinality(Range(logHandlers'[last'.name]) \cap SynthSinks) = 1
                 ELSE logHandlers'[last'.name] = logHandlers[last'.name]]_vars

\* get_logger("a") repeated after a configure call that came after the first
\* one: the logger's sink is older than the default handler of the configuration
C17_Witness ==
    /\ last.op = "get_logger" /\ last.name = "a"
    /\ configured /\ prefix = "B"
    /\ logHandlers["a"] = <<3>> /\ default_handler = 4

\* the text holds no {prefix} token, no empty bracket pair and no double space
NoPrefixResidue(line) ==
    /\ \A i \in 1..Len(line) : line[i] # "{prefix}"
    /\ \A i \in 1..(Len(line) - 1) :
           /\ ~(line[i] = "[" /\ line[i + 1] = "]")
           /\ ~(line[i] = " " /\ line[i + 1] = " ")

\* C19: with an empty prefix configured and a format string that embeds a
\* [{prefix}] segment, every line a logger's sink writes holds no {prefix}
\* token, no empty bracket pair and no double space
C19_EmptyPrefixSegmentRemoved ==
    (last.op = "log" /\ configured /\ prefix = ""
         /\ format_string \in {OPTIONAL_FORMAT, CUSTOM_FORMAT})
        => \A i \in 1..Len(out) : NoPrefixResidue(out[i].line)

\* C20: a line written through an ExtraFieldsFormatter holds " | extra: "
\* exactly when the record carries a field outside the standard set, and then
\* ends with the JSON object of these fields in insertion order (when they
\* are serializable)
C20_ExtraSuffix ==
    last.op = "log"
        => \A i \in 1..Len(out) :
               sinkFmt[out[i].sink].kind = "extra"
                   => LET line == out[i].line
                          extra == last.record.extra
                          tail == <<" | extra: ">> \o json_dumps(extra).text
                      IN  /\ (\E j \in 1..Len(line) : line[j] = " | extra: ")
                                 <=> extra # <<>>
                          /\ (extra # <<>> /\ json_dumps(extra).ok)
                                 => /\ Len(line) > Len(tail)
                                    /\ SubSeq(line, Len(line) - Len(tail) + 1, Len(line)) = tail

\* two extra fields, logged with "n" before "k", written in that order
C20_Witness ==
    /\ last.op = "log" /\ out # <<>>
    /\ last.record.extra = << <<"n", IntValue("42")>>, <<"k", StrValue("v")>> >>
    /\ \E i \in 1..Len(out) :
           /\ sinkFmt[out[i].sink].kind = "extra"
           /\ SubSeq(out[i].line, Len(out[i].line) - 10, Len(out[i].line))
                  = <<"msg", " | extra: ", "{", "\"n\"", ": ", "42", ", ",
                      "\"k\"", ": ", "\"v\"", "}">>

\* C21: whatever makes json.dumps fail on the extra fields, every sink the
\* record reaches writes a line, and that line ends with " | extra: " followed
\* by the text of the mapping
C21_FormatNeverRaises ==
    (last.op = "log" /\ ~json_dumps(last.record.extra).ok
         /\ last.record.levelno >= logLevel[last.name])
        => \A h \in Range(logHandlers[last.name]) :
               (last.record.levelno >= sinkLevel[h] /\ sinkFmt[h].kind = "extra")
                   => \E i \in 1..Len(out) :
                          /\ out[i].sink = h
                          /\ \E tail \in {<<" | extra: ">> \o dict_str(last.record.extra)} :
                                 /\ Len(out[i].line) > Len(tail)
                                 /\ SubSeq(out[i].line, Len(out[i].line) - Len(tail) + 1,
                                           Len(out[i].line)) = tail

\* C22: once a class has a cached logger, no access and no set_log_level call
\* replaces the entry, and every access for that class (instance.log or
\* cls.logger, with or without a level) hands back the logger of the entry
C22_CacheStable ==
    [][\A c \in Classes :
          /\ loggers[c] # NoLogger => loggers'[c] = loggers[c]
          /\ (last'.op = "logger" /\ last'.cls = c)
                 => (last'.name = loggers'[c] /\ last'.name # NoLogger)]_vars

\* a later access without a level, after cls.logger(INFO) and
\* set_log_level(DEBUG) before it: the logger still has the level INFO that
\* only an earlier access can have given it
C22_Witness ==
    /\ last.op = "logger"
    /\ last.cls = "UserService"
    /\ last.lvl = NoLevel
    /\ last.name = loggers["UserService"]
    /\ log_level["UserService"] = DEBUG
    /\ logLevel[last.name] = INFO

\* C23: any two distinct classes that have a cached logger have two distinct
\* loggers, and the logger of each class is named <module>.<its own name>
C23_DistinctLoggers ==
    /\ \A c \in Classes :
           loggers[c] # NoLogger
               => (loggers[c] = ModuleName \o "." \o class_name(c) /\ loggers[c] \in loggerDict)
    /\ \A c1, c2 \in Classes :
           (c1 # c2 /\ loggers[c1] # NoLogger /\ loggers[c2] # NoLogger)
               => loggers[c1] # loggers[c2]

\* C24: an access made for an object whose runtime class is the subclass
\* UserService uses the cache entry of UserService, whose logger is named
\* <module>.UserService; it is not the logger of BaseService, and the entry of
\* BaseService is left as it was
C24_RuntimeClassNaming ==
    [][(last'.op = "logger" /\ last'.cls = "UserService")
           => /\ last'.name = ModuleName \o ".UserService"
              /\ loggers'["UserService"] = last'.name
              /\ last'.name \in loggerDict'
              /\ last'.name # loggers'["BaseService"]
              /\ loggers'["BaseService"] = loggers["BaseService"]]_vars

\* the subclass declares no level of its own, the base class has a logger
\* too, and the last access was made for the subclass
C24_Witness ==
    /\ last.op = "logger"
    /\ last.cls = "UserService"
    /\ log_level["UserService"] = NoLevel
    /\ loggers["BaseService"] = ModuleName \o ".BaseService"
    /\ loggers["UserService"] = ModuleName \o ".UserService"

\* C25: set_log_level on the base class, made when the subclass has a cached
\* logger, leaves the cache entry of the subclass and the level of that
\* logger as they were
C25_BaseLevelLeavesSubclass ==
    [][(last'.op = "set_log_level" /\ last'.cls = "BaseService"
            /\ loggers["UserService"] # NoLogger)
           => /\ loggers'["UserService"] = loggers["UserService"]
              /\ logLevel'[loggers["UserService"]] = logLevel[loggers["UserService"]]]_vars

\* both classes have a logger; set_log_level(WARNING) on the base class has
\* set the base logger to WARNING and the subclass logger is still at DEBUG
C25_Witness ==
    /\ last.op = "set_log_level"
    /\ last.cls = "BaseService"
    /\ last.lvl = WARNING
    /\ loggers["BaseService"] # NoLogger
    /\ loggers["UserService"] # NoLogger
    /\ logLevel[loggers["BaseService"]] = WARNING
    /\ logLevel[loggers["UserService"]] = DEBUG

\* C26: set_log_level(v) on a class stores v as the default of the class; if
\* the class has a cached logger, that same logger (the entry is not replaced,
\* so a handle taken earlier is this logger) gets the level v and so does
\* every one of its sinks, and its sinks stay the ones it had
C26_SetLogLevelInPlace ==
    [][last'.op = "set_log_level"
           => /\ log_level'[last'.cls] = last'.lvl
              /\ loggers'[last'.cls] = loggers[last'.cls]
              /\ loggers[last'.cls] # NoLogger
                     => /\ logLevel'[loggers[last'.cls]] = last'.lvl
                        /\ logHandlers'[loggers[last'.cls]] = logHandlers[loggers[last'.cls]]
                        /\ \A h \in Range(logHandlers[loggers[last'.cls]]) :
                               sinkLevel'[h] = last'.lvl]_vars

\* set_log_level(WARNING) on a class whose cached logger has a sink, made
\* while the process level is DEBUG
C26_Witness ==
    /\ last.op = "set_log_level"
    /\ last.cls = "UserService"
    /\ last.lvl = WARNING
    /\ configured
    /\ level = DEBUG
    /\ loggers["UserService"] # NoLogger
    /\ logLevel[loggers["UserService"]] = WARNING
    /\ logHandlers[loggers["UserService"]] # <<>>
    /\ \A h \in Range(logHandlers[loggers["UserService"]]) : sinkLevel[h] = WARNING

\* C27: the first access for a class, made without a level, creates the cache
\* entry and the new logger has the stored default of the class (its own
\* log_level, else the one it inherits) whatever the process level is; with
\* no stored default its level is the one the factory chooses: the configured
\* level, else the level of the root logger if that is set, else INFO
C27_FirstAccessUsesClassDefault ==
    [][(last'.op = "logger" /\ last'.lvl = NoLevel /\ loggers[last'.cls] = NoLogger)
           => \E d \in {IF log_level[last'.cls] # NoLevel THEN log_level[last'.cls]
                        ELSE IF last'.cls = "UserService" THEN log_level["BaseService"]
                        ELSE NoLevel} :
                  /\ loggers'[last'.cls] # NoLogger
                  /\ loggers'[last'.cls] \in loggerDict'
                  /\ d # NoLevel => logLevel'[loggers'[last'.cls]] = d
                  /\ d = NoLevel
                         => logLevel'[loggers'[last'.cls]] =
                                (IF configured THEN level
                                 ELSE IF rootLevel # NOTSET THEN rootLevel ELSE INFO)]_vars

\* the process level is DEBUG, the subclass inherits the default WARNING of
\* its base class and no level was ever set on the subclass itself: the
\* level WARNING of its logger is the one its first access gave it
C27_Witness ==
    /\ last.op = "logger"
    /\ last.cls = "UserService"
    /\ last.lvl = NoLevel
    /\ last.was_configured
    /\ level = DEBUG
    /\ log_level["UserService"] = NoLevel
    /\ log_level["BaseService"] = WARNING
    /\ loggers["BaseService"] = NoLogger
    /\ logLevel[loggers["UserService"]] = WARNING

RendersPrefix(line, p) ==
    /\ \E i \in 1..(Len(line) - 2) : line[i] = "[" /\ line[i + 1] = p /\ line[i + 2] = "]"
    /\ \A i \in 1..Len(line) : line[i] # "{prefix}"

\* C29: a configure call with force=true and no prefix, made on a configured
\* state with the prefix p in force, leaves get_prefix() at p and takes the
\* format string f of the call; every sink of every logger of the registry
\* then carries f with p, and (p non-empty) renders a record with p in it
C29_ForcedKeepsPrefix ==
    [][(last'.op = "configure" /\ last'.args.force /\ configured
            /\ last'.args.prefix = "")
           => /\ prefix' = prefix
              /\ format_string' = last'.args.format_string
              /\ \A n \in loggerDict' : \A h \in Range(logHandlers'[n]) :
                     \E f \in {sinkFmt'[h]} :
                         /\ f.kind = "extra"
                         /\ f.fmt = last'.args.format_string
                         /\ f.template_vars
                                = (IF prefix # "" THEN {<<"prefix", prefix>>} ELSE {})
                         /\ prefix # ""
                                => \E r \in {[name |-> n, msg |-> "msg", levelno |-> INFO,
                                              filename |-> "app.py", lineno |-> "7",
                                              extra |-> <<>>]} :
                                       /\ ~format(f, r).raised
                                       /\ RendersPrefix(format(f, r).line, prefix)]_vars

\* the prefix B is in force after a forced call that passed no prefix and
\* the custom format; a logger of the registry has a sink that carries both
C29_Witness ==
    /\ last.op = "configure" /\ last.args.force /\ last.was_configured
    /\ last.args.prefix = ""
    /\ last.args.format_string = CUSTOM_FORMAT
    /\ prefix = "B"
    /\ format_string = CUSTOM_FORMAT
    /\ \E n \in loggerDict : \E h \in Range(logHandlers[n]) : Carries(h, "B", CUSTOM_FORMAT)

\* the field values the configuration holds now
Held == held \cup {[prefix |-> prefix, format_string |-> format_string,
                    date_format |-> date_format, level |-> level]}

\* C30: whenever no call is in progress, every logger of the registry has its
\* level and the formatter of its sinks from one set of field values the
\* configuration held at some moment, however the calls of the threads were
\* interleaved
C30_LevelAndFormatterTogether ==
    (\A t \in Threads : threads[t].pc \in {"idle", "done"})
        => \A n \in loggerDict :
               \E c \in Held :
                   /\ logLevel[n] = c.level
                   /\ \A h \in Range(logHandlers[n]) :
                          sinkFmt[h].kind = "extra"
                              => /\ sinkFmt[h].fmt = c.format_string
                                 /\ sinkFmt[h].datefmt = c.date_format
                                 /\ sinkFmt[h].template_vars
                                        = (IF c.prefix # "" THEN {<<"prefix", c.prefix>>}
                                           ELSE {})

\* C31: after a configure call with force=true the root logger has the level
\* passed and its sinks are the ones the call selected and no other: the
\* default handler passed, else the handler list passed, else one stdout sink
\* built by the call (a sink that was not at the root before); no sink is
\* attached to the root twice
C31_ForcedRootSinks ==
    [][(last'.op = "configure" /\ last'.args.force)
           => /\ rootLevel' = last'.args.level
              /\ \A h \in Sinks : Count(rootHandlers', h) <= 1
              /\ last'.args.default_handler # NoSink
                     => Range(rootHandlers') = {last'.args.default_handler}
              /\ (last'.args.default_handler = NoSink /\ last'.args.hasHandlers)
                     => Range(rootHandlers') = Range(last'.args.handlers)
              /\ (last'.args.default_handler = NoSink /\ ~last'.args.hasHandlers)
                     => /\ Range(rootHandlers') = {default_handler'}
                        /\ default_handler' \in SynthSinks
                        /\ ~Contains(rootHandlers, default_handler')]_vars

\* a forced call that passed the handler list <<1>> to a configured state in
\* which the user sink 2 had been handed out to a named logger: the root has
\* the sink 1 only
C31_Witness ==
    /\ last.op = "configure" /\ last.args.force /\ last.was_configured
    /\ last.args.hasHandlers /\ last.args.handlers = <<1>>
    /\ rootHandlers = <<1>>
    /\ rootLevel = INFO
    /\ \E n \in loggerDict : Contains(logHandlers[n], 2)

\* C32: a set_prefix call on a configured state changes the level of no
\* logger of the registry and of no sink, so a level requested for a logger
\* stays
C32_SetPrefixKeepsLevels ==
    [][(last'.op = "set_prefix" /\ configured)
           => /\ \A n \in loggerDict : logLevel'[n] = logLevel[n]
              /\ \A n \in loggerDict : \A h \in Range(logHandlers[n]) :
                     sinkLevel'[h] = sinkLevel[h]]_vars

\* C33: when add_handler(h) has returned on a configured state, h carries the
\* formatter of the configuration (its prefix and format string) and the
\* configured level
C33_AddedSinkFormatted ==
    (last.op = "add_handler" /\ last.was_configured /\ ~last.raised)
        => /\ Carries(last.sink, prefix, format_string)
           /\ sinkFmt[last.sink].kind = "extra"
           /\ sinkLevel[last.sink] = level

\* C34: a call that requests a level for one logger (get_logger with a level,
\* the class accessor with a level, set_log_level on a class with a cached
\* logger) leaves the level of every sink of every other logger of the
\* registry as it was
C34_LevelRequestIsLocal ==
    [][\A target \in {IF last'.op = "set_log_level" THEN loggers[last'.cls]
                      ELSE last'.name} :
           (last'.op \in {"get_logger", "logger", "set_log_level"}
                /\ last'.lvl # NoLevel /\ target # NoLogger)
               => \A b \in loggerDict \ {target} :
                      \A h \in Range(logHandlers[b]) : sinkLevel'[h] = sinkLevel[h]]_vars

\* C35: when the configure calls the threads made without force on a state
\* that was not configured have all returned, the prefix, the format, the
\* level, the handler list and the root logger's level and sinks are those of
\* the arguments of one of the calls
C35_FirstCallWins ==
    (\A t \in Threads : threads[t].pc = "done" /\ threads[t].op = "configure"
                            /\ ~threads[t].args.force)
        => \E t \in Threads : \E a \in {threads[t].args} :
               /\ prefix = a.prefix
               /\ format_string = a.format_string
               /\ date_format = a.date_format
               /\ level = a.level
               /\ handlers = a.handlers
               /\ rootLevel = a.level
               /\ Range(rootHandlers) = Range(a.handlers)

\* C36: when the get_logger calls the threads made for one name have all
\* returned, the logger of that name has exactly one stdout sink built by the
\* library
C36_OneSinkUnderConcurrency ==
    (\A t \in Threads : threads[t].pc = "done" /\ threads[t].op = "get_logger")
        => \A n \in loggerDict :
               Cardinality(Range(logHandlers[n]) \cap SynthSinks) = 1

\* C37: when the set_prefix calls of the threads have all returned, every sink
\* of every logger of the registry carries the prefix get_prefix() returns
C37_PrefixAgreesAfterCalls ==
    (\A t \in Threads : threads[t].pc = "done" /\ threads[t].op = "set_prefix")
        => \A n \in loggerDict : \A h \in Range(logHandlers[n]) :
               sinkFmt[h].template_vars
                   = (IF prefix # "" THEN {<<"prefix", prefix>>} ELSE {})

\* C38: a Logger.set_log_format call made on a configured state leaves the
\* configuration in force: every sink of a logger of the registry that carried
\* the configured prefix and format string before the call carries them after it
C38_ConfigurationPrevails ==
    [][(last'.op = "set_log_format" /\ configured)
           => \A n \in loggerDict : \A h \in Range(logHandlers[n]) :
                  Carries(h, prefix, create_formatter(State).fmt)
                      => /\ sinkFmt'[h].fmt = create_formatter(State).fmt
                         /\ sinkFmt'[h].template_vars = create_formatter(State).template_vars]_vars

\* C39: after a configure call that takes effect, every sink of the root logger
\* carries the formatter of the configuration (its prefix, its format string,
\* its date format) and the configured level
C39_RootSinksFormatted ==
    [][(last'.op = "configure" /\ ~(configured /\ ~last'.args.force))
           => \A h \in Range(rootHandlers') :
                  /\ sinkFmt'[h].kind = "extra"
                  /\ sinkFmt'[h].fmt = (IF format_string' # "" THEN format_string'
                                                               ELSE DEFAULT_FORMAT)
                  /\ sinkFmt'[h].template_vars
                         = (IF prefix' # "" THEN {<<"prefix", prefix'>>} ELSE {})
                  /\ sinkLevel'[h] = level']_vars

====
